---- MODULE Spec2Model ----
(***************************************************************************)
(* Model of the DPDK packet capture library (src/dpdk/libdpdk_capture.c,   *)
(* src/dpdk/dpdk_capture.h).                                               *)
(*                                                                         *)
(* The library keeps its session in four process globals (mbuf_pool,       *)
(* g_port_id, g_batch_size, force_quit) and drives the DPDK runtime (EAL), *)
(* one Ethernet port and one mbuf pool.  The DPDK side is modelled as the  *)
(* environment: the state of the EAL, of each port and of the pool slots,  *)
(* with the outcome of every driver call drawn nondeterministically.       *)
(* Every driver call an operation issues is appended to `trace`, so that   *)
(* statements about which calls an operation makes, and in which order,    *)
(* are statements about the state.                                         *)
(***************************************************************************)
EXTENDS Integers, Sequences, FiniteSets, TLC

(* ------------------------------ constants ------------------------------ *)

\* dpdk_capture.h:13
MAX_PKT_BURST == 32

\* The descriptor counts port_init asks for (nb_rxd, nb_txd, lines 48-49).
NB_DESC == 1024

\* The largest value of the uint8_t port field of struct packet
\* (dpdk_capture.h:20).
UINT8_MAX == 255

\* Bounds of the model.
MaxPorts == 2       \* ports the runtime may discover
PoolSlots == 3      \* slots of the mbuf pool (8192 in the code, line 160)
RingSize == 2       \* frames the receive queue can hold (1024 descriptors)
MaxFrames == 3      \* frames that arrive in one run

NULL == "NULL"
POOL == "MBUF_POOL"

\* The ports the model follows: every port an argument can name, among them
\* the first port whose number does not fit the port field of struct packet.
\* The runtime discovers at most MaxPorts ports, or, in a build with more
\* than UINT8_MAX + 1 ports, every port up to WidePort.
WidePort == UINT8_MAX + 1
Ports == 0 .. MaxPorts \cup {WidePort}
PortCounts == 0 .. MaxPorts \cup {WidePort + 1}
Slots == 1 .. PoolSlots

\* Arguments the host application may pass.
PortInputs == -1 .. MaxPorts \cup {WidePort}
BatchInputs == {-1, 0, 1, 2, MAX_PKT_BURST, MAX_PKT_BURST + 1}
\* dpdk_init is called with every port and a batch size of 1, and with every
\* batch size on port 0.
InitInputs ==
    {[port |-> p, batch |-> 1] : p \in PortInputs}
        \cup {[port |-> 0, batch |-> b] : b \in BatchInputs}
MaxPacketsInputs == {-1, 0, 1, 2, MAX_PKT_BURST + 8}
CaptureInputs ==
    {[pk |-> "packets", max |-> m] : m \in MaxPacketsInputs}
        \cup {[pk |-> NULL, max |-> 2]}
StatsPortInputs == 0 .. MaxPorts \cup {WidePort}
Signals == {"SIGINT", "SIGTERM"}
\* The counts rte_eth_dev_adjust_nb_rx_tx_desc may write back: the counts
\* asked for, or the driver's own.
AdjustedDescs == {NB_DESC, NB_DESC \div 2}

(* ------------------------------- state --------------------------------- *)

VARIABLES
    mbuf_pool,      \* static struct rte_mempool *mbuf_pool
    g_port_id,      \* static int g_port_id
    g_batch_size,   \* static int g_batch_size
    force_quit,     \* static volatile sig_atomic_t force_quit
    handlers,       \* TRUE once signal(SIGINT/SIGTERM, signal_handler) ran
    eal,            \* the runtime: "never", "failed", "up", "released"
    eal_detaches,   \* build property: rte_eal_cleanup detaches the ports
    dev,            \* state of each port of the runtime
    rxq,            \* receive queue 0: the slots holding pending frames
    ipackets,       \* the driver's received-packets counter
    nb_desc,        \* descriptor counts queue 0 was set up with (0: not set up)
    bufs,           \* the slots dpdk_capture_packets holds in bufs[]
    packets,        \* Packet records the last API call wrote (capture)
    stats_out,      \* counters the last API call wrote (get_stats)
    pc,             \* "idle", or "capturing" inside dpdk_capture_packets
    proc,           \* "alive", "crashed" or "killed"
    op,             \* the last API call and its arguments
    env,            \* the outcomes the environment gave the last dpdk_init
    ret,            \* the value the last API call returned
    trace,          \* the driver calls the last API call issued, in order
    delivered       \* history: packets returned by all capture calls so far

session == <<mbuf_pool, g_port_id, g_batch_size, force_quit, handlers>>
hw == <<eal, eal_detaches, dev, rxq, ipackets, nb_desc, bufs>>
vars == <<mbuf_pool, g_port_id, g_batch_size, force_quit, handlers,
          eal, eal_detaches, dev, rxq, ipackets, nb_desc, bufs,
          packets, stats_out, pc, proc, op, env, ret, trace, delivered>>

(* ------------------------------ helpers -------------------------------- *)

Min(a, b) == IF a < b THEN a ELSE b

Range(s) == {s[i] : i \in 1 .. Len(s)}

\* Conversion of an int to uint16_t / uint8_t.
ToU16(i) == i % 65536
ToU8(i) == i % (UINT8_MAX + 1)

\* Slots in the free pool: neither pending on the queue nor held in bufs[].
FreeSlots == Slots \ (Range(rxq) \cup Range(bufs))

\* rte_eth_dev_is_valid_port: the port is attached to the runtime.
IsValidPort(d, p) == p \in DOMAIN d /\ d[p] # "unused"

DevStarted(d, p) == IsValidPort(d, p) /\ d[p] \in {"started", "promiscuous"}

NoArgs == [name |-> "none", port |-> 0, batch |-> 0, max |-> 0, pk |-> NULL, sig |-> "none"]
NoEnv == [eal |-> FALSE, nb |-> 0, pool |-> FALSE, pfail |-> 0, adj |-> NB_DESC]
NoQueues == [rx |-> 0, tx |-> 0]
Unwritten == "unwritten"

(* ------------------------------ Init ----------------------------------- *)

\* The static initialisers (lines 24-27); no runtime, no port, empty queue.
Init ==
    /\ mbuf_pool = NULL
    /\ g_port_id = 0
    /\ g_batch_size = MAX_PKT_BURST
    /\ force_quit = 0
    /\ handlers = FALSE
    /\ eal = "never"
    /\ eal_detaches \in BOOLEAN
    /\ dev = [p \in Ports |-> "unused"]
    /\ rxq = <<>>
    /\ ipackets = 0
    /\ nb_desc = NoQueues
    /\ bufs = <<>>
    /\ packets = <<>>
    /\ stats_out = Unwritten
    /\ pc = "idle"
    /\ proc = "alive"
    /\ op = NoArgs
    /\ env = NoEnv
    /\ ret = 0
    /\ trace = <<>>
    /\ delivered = 0

(* ---------------------------- signal_handler --------------------------- *)

\* Mutant of signal_handler: the flag is toggled instead of set.
signal_handler_Toggles(signum) ==
    IF signum = "SIGINT" \/ signum = "SIGTERM" THEN 1 - force_quit ELSE force_quit

\* signal_handler (lines 36-42): SIGINT and SIGTERM set force_quit.
signal_handler(signum) ==
    IF signum = "SIGINT" \/ signum = "SIGTERM" THEN 1 ELSE force_quit

\* Delivery of a signal at any point.  With the handlers of lines 177-178
\* installed the handler runs; before that the default disposition of
\* SIGINT/SIGTERM ends the process.
Signal(signum) ==
    /\ proc = "alive"
    /\ IF handlers
         THEN /\ force_quit' = signal_handler(signum)
              /\ proc' = proc
         ELSE /\ proc' = "killed"
              /\ force_quit' = force_quit
    /\ UNCHANGED <<mbuf_pool, g_port_id, g_batch_size, handlers, hw,
                   packets, stats_out, pc, op, env, ret, trace, delivered>>

(* ------------------------------ port_init ------------------------------ *)

\* The driver calls of port_init after the validity check, in program order
\* (lines 58, 69, 73, 79, 89, 96, 102, 110).
PortInitSteps ==
    << "rte_eth_dev_info_get", "rte_eth_dev_configure",
       "rte_eth_dev_adjust_nb_rx_tx_desc", "rte_eth_rx_queue_setup",
       "rte_eth_tx_queue_setup", "rte_eth_dev_start",
       "rte_eth_macaddr_get", "rte_eth_promiscuous_enable" >>

NoFailure == 0
FailableSteps == 0 .. Len(PortInitSteps)

\* The state of a port after the first k steps of port_init succeeded.
DevAfter(k) ==
    IF k >= 8 THEN "promiscuous"
    ELSE IF k >= 6 THEN "started"
    ELSE IF k >= 2 THEN "configured"
    ELSE "attached"

\* Mutant of QueueDesc: the queues are set up with the counts asked for.
QueueDesc_Requested(requested, adjusted) == requested

\* Lines 73-90: rte_eth_dev_adjust_nb_rx_tx_desc writes the adjusted counts
\* into nb_rxd and nb_txd, which the queue setups are then given.
QueueDesc(requested, adjusted) == adjusted

\* port_init (lines 44-115) on port `port` (uint16_t) when the driver fails
\* step pfail (NoFailure: every step succeeds) and adjusts the descriptor
\* counts to adj; queue 0 is the one receive and the one transmit queue
\* (rx_rings = tx_rings = 1, line 47).  Every step's failure
\* returns at once (lines 59-63, 70-71, 74-75, 81-82, 91-92, 97-98,
\* 103-104, 111-112); nothing that was done is undone.
port_init(port, pfail, adj, d) ==
    IF ~IsValidPort(d, port)
    THEN [ret |-> -1, calls |-> <<"rte_eth_dev_is_valid_port">>, dev |-> d,
          nb_desc |-> NoQueues]
    ELSE LET tried == IF pfail = NoFailure THEN Len(PortInitSteps) ELSE pfail
             done  == IF pfail = NoFailure THEN Len(PortInitSteps) ELSE pfail - 1
         IN  [ret   |-> IF pfail = NoFailure THEN 0 ELSE -22,
              calls |-> <<"rte_eth_dev_is_valid_port">>
                          \o SubSeq(PortInitSteps, 1, tried),
              dev   |-> [d EXCEPT ![port] = DevAfter(done)],
              nb_desc |-> [rx |-> IF tried >= 4 THEN QueueDesc(NB_DESC, adj) ELSE 0,
                           tx |-> IF tried >= 5 THEN QueueDesc(NB_DESC, adj) ELSE 0]]

(* ------------------------------ dpdk_init ------------------------------ *)

\* rte_eal_cleanup: the runtime is released; whether the ports are detached
\* with it depends on the DPDK build.
EalCleanupDev(d) ==
    IF eal_detaches THEN [p \in Ports |-> "unused"] ELSE d

\* Mutant of PortOutOfRange: the comparison made on signed integers.
PortOutOfRange_Signed(port, nb_ports) == port >= nb_ports

\* Line 150, `port >= nb_ports`: port is an int, nb_ports an unsigned, so
\* port is converted to unsigned and a negative port compares as a huge one.
PortOutOfRange(port, nb_ports) == port < 0 \/ port >= nb_ports

\* Mutant of ClampBatch: the batch size is stored as passed.
ClampBatch_Unclamped(batch_size) == batch_size

\* Line 157.
ClampBatch(batch_size) ==
    IF batch_size > 0 /\ batch_size <= MAX_PKT_BURST
    THEN batch_size ELSE MAX_PKT_BURST

\* dpdk_init (lines 117-182) as a function of its arguments and of what the
\* environment answers: e.eal (rte_eal_init succeeds), e.nb (ports found),
\* e.pool (the pool can be created), e.pfail (the port_init step that fails).
\* The result names the return value, the calls made and the globals and
\* runtime state the call leaves.
InitOutcome(port, batch_size, e) ==
    LET unchanged == [ret |-> 0, calls |-> <<>>, eal |-> eal, dev |-> dev,
                      mbuf_pool |-> mbuf_pool, g_port_id |-> g_port_id,
                      g_batch_size |-> g_batch_size, handlers |-> handlers,
                      nb_desc |-> nb_desc]
        devUp == [p \in Ports |-> IF p < e.nb THEN "attached" ELSE "unused"]
        c1 == <<"rte_eal_init">>
        c2 == c1 \o <<"rte_eth_dev_count_avail">>
        c3 == c2 \o <<"rte_pktmbuf_pool_create">>
        pi == port_init(ToU16(port), e.pfail, e.adj, devUp)
        c4 == c3 \o pi.calls
    IN
    IF ~e.eal THEN
        [unchanged EXCEPT !.ret = -1, !.calls = c1,
                          !.eal = IF eal = "never" THEN "failed" ELSE eal]
    ELSE IF e.nb = 0 THEN
        [unchanged EXCEPT !.ret = -2, !.calls = c2 \o <<"rte_eal_cleanup">>,
                          !.eal = "released", !.dev = EalCleanupDev(devUp)]
    ELSE IF PortOutOfRange(port, e.nb) THEN
        [unchanged EXCEPT !.ret = -3, !.calls = c2 \o <<"rte_eal_cleanup">>,
                          !.eal = "released", !.dev = EalCleanupDev(devUp)]
    ELSE IF ~e.pool THEN
        [unchanged EXCEPT !.ret = -4, !.calls = c3 \o <<"rte_eal_cleanup">>,
                          !.eal = "released", !.dev = EalCleanupDev(devUp),
                          !.g_port_id = port,
                          !.g_batch_size = ClampBatch(batch_size),
                          !.mbuf_pool = NULL]
    ELSE IF pi.ret # 0 THEN
        [unchanged EXCEPT !.ret = -5, !.calls = c4 \o <<"rte_eal_cleanup">>,
                          !.eal = "released", !.dev = EalCleanupDev(pi.dev),
                          !.nb_desc = pi.nb_desc,
                          !.g_port_id = port,
                          !.g_batch_size = ClampBatch(batch_size),
                          !.mbuf_pool = POOL]
    ELSE
        [unchanged EXCEPT !.ret = 0, !.calls = c4,
                          !.eal = "up", !.dev = pi.dev,
                          !.nb_desc = pi.nb_desc,
                          !.g_port_id = port,
                          !.g_batch_size = ClampBatch(batch_size),
                          !.mbuf_pool = POOL,
                          !.handlers = TRUE]

\* The answers the environment can give a dpdk_init call.  rte_eal_init
\* succeeds at most once per process: every call after the first fails.
\* Without a runtime there is no port and no pool memory, so a failed
\* rte_eal_init comes with nb = 0 and pool = FALSE.
InitEnvs ==
    {e \in [eal : BOOLEAN, nb : PortCounts, pool : BOOLEAN,
             pfail : FailableSteps, adj : AdjustedDescs] :
        /\ e.eal => eal = "never"
        /\ ~e.eal => e.nb = 0 /\ ~e.pool /\ e.pfail = NoFailure
        /\ e.adj # NB_DESC => e.eal /\ e.nb > 0 /\ e.pool /\ e.pfail \notin 1 .. 3}

dpdk_init(port, batch_size, e) ==
    /\ proc = "alive" /\ pc = "idle"
    /\ LET o == InitOutcome(port, batch_size, e) IN
        /\ ret' = o.ret
        /\ trace' = o.calls
        /\ eal' = o.eal
        /\ dev' = o.dev
        /\ mbuf_pool' = o.mbuf_pool
        /\ g_port_id' = o.g_port_id
        /\ g_batch_size' = o.g_batch_size
        /\ handlers' = o.handlers
        /\ nb_desc' = o.nb_desc
    /\ op' = [NoArgs EXCEPT !.name = "init", !.port = port, !.batch = batch_size]
    /\ env' = e
    /\ packets' = <<>>
    /\ stats_out' = Unwritten
    /\ UNCHANGED <<force_quit, eal_detaches, rxq, ipackets, bufs, pc, proc,
                   delivered>>

(* ------------------------- dpdk_capture_packets ------------------------ *)

\* Mutant of CaptureArgsInvalid: zero accepted as a packet count.
CaptureArgsInvalid_ZeroAccepted(pk, max_packets) == pk = NULL \/ max_packets < 0

\* Line 191 (the test of max_packets and of the packets pointer).
CaptureArgsInvalid(pk, max_packets) == pk = NULL \/ max_packets <= 0

\* Mutant of CaptureCount: the configured batch size is not applied.
CaptureCount_NoBatchLimit(max_packets) == max_packets

\* Line 196.
CaptureCount(max_packets) ==
    IF max_packets < g_batch_size THEN max_packets ELSE g_batch_size

\* rte_eth_rx_burst(g_port_id, 0, bufs, nb_pkts), line 199: the numbers of
\* frames one burst may deliver.  A started port hands over the oldest pending
\* frames, at most nb_pkts (a uint16_t) of them and possibly fewer; a port that
\* is not started delivers nothing.
RxBurstCounts(nb_pkts) ==
    IF DevStarted(dev, ToU16(g_port_id))
    THEN 0 .. Min(ToU16(nb_pkts), Len(rxq))
    ELSE {0}

\* Calling into the driver of a port whose runtime has been released is
\* undefined: the call may return or the process may fault.
RxBurstUndefined == DevStarted(dev, ToU16(g_port_id)) /\ eal # "up"

\* Mutant of BurstCalls: a burst that came short of the count is retried.
BurstCalls_RetryShort(nb_rx, capture_count) ==
    IF nb_rx < capture_count
    THEN <<"rte_eth_rx_burst", "rte_eth_rx_burst">>
    ELSE <<"rte_eth_rx_burst">>

\* Line 199 is the only burst-receive call of dpdk_capture_packets and is in
\* no loop: one call, whatever number nb_rx of frames it delivers.
BurstCalls(nb_rx, capture_count) == <<"rte_eth_rx_burst">>

\* Mutant of EmptyBurstReturn: an empty burst is reported as an error.
EmptyBurstReturn_Error(nb_rx) == -1

\* Lines 201-203: the value returned when the burst received nothing.
EmptyBurstReturn(nb_rx) == 0

\* dpdk_capture_packets, lines 184-203: the argument check, the burst-receive
\* call and the return of an empty burst.
dpdk_capture_packets(pk, max_packets) ==
    /\ proc = "alive" /\ pc = "idle"
    /\ op' = [NoArgs EXCEPT !.name = "capture", !.pk = pk, !.max = max_packets]
    /\ packets' = <<>>
    /\ IF CaptureArgsInvalid(pk, max_packets)
       THEN /\ ret' = -1
            /\ trace' = <<>>
            /\ UNCHANGED <<rxq, bufs, pc, proc>>
       ELSE \/ \E nb_rx \in RxBurstCounts(CaptureCount(max_packets)) :
               /\ trace' = BurstCalls(nb_rx, CaptureCount(max_packets))
               /\ bufs' = SubSeq(rxq, 1, nb_rx)
               /\ rxq' = SubSeq(rxq, nb_rx + 1, Len(rxq))
               /\ IF nb_rx = 0
                  THEN ret' = EmptyBurstReturn(nb_rx) /\ pc' = pc
                  ELSE ret' = ret /\ pc' = "capturing"
               /\ proc' = proc
            \/ /\ RxBurstUndefined
               /\ trace' = <<"rte_eth_rx_burst">>
               /\ proc' = "crashed"
               /\ UNCHANGED <<rxq, bufs, pc, ret>>
    /\ stats_out' = Unwritten
    /\ UNCHANGED <<session, eal, eal_detaches, dev, ipackets, nb_desc, env,
                   delivered>>

\* Mutant of FreedCount: the last mbuf of the burst is not freed.
FreedCount_OffByOne(nb_rx) == nb_rx - 1

\* Lines 219-221: the free loop runs over the nb_rx mbufs of the burst.
FreedCount(nb_rx) == nb_rx

\* Mutant of CaptureResult: the count asked of the burst is returned.
CaptureResult_Requested(nb_rx) == CaptureCount(op.max)

\* Line 223: the call returns the number of frames the burst received.
CaptureResult(nb_rx) == nb_rx

\* dpdk_capture_packets, lines 205-223: the Packet records are filled (the
\* data field points into the mbuf, the port field is a uint8_t), every mbuf of
\* the burst is freed, and the count is returned.
CaptureFinish ==
    /\ proc = "alive" /\ pc = "capturing"
    /\ packets' = [i \in 1 .. Len(bufs) |->
                      [data |-> bufs[i], port |-> ToU8(g_port_id)]]
    /\ bufs' = SubSeq(bufs, FreedCount(Len(bufs)) + 1, Len(bufs))
    /\ trace' = trace \o [i \in 1 .. FreedCount(Len(bufs)) |-> "rte_pktmbuf_free"]
    /\ ret' = CaptureResult(Len(bufs))
    /\ delivered' = delivered + ret'
    /\ pc' = "idle"
    /\ UNCHANGED <<session, eal, eal_detaches, dev, rxq, ipackets, nb_desc,
                   stats_out, proc, op, env>>

(* ---------------------------- dpdk_get_stats --------------------------- *)

\* Mutant of StatsPortMismatch: the port is not compared.
StatsPortMismatch_Never(port) == FALSE

\* Line 232.
StatsPortMismatch(port) == port # g_port_id

\* dpdk_get_stats, lines 226-247 (the four output pointers taken non-null).
\* rte_eth_stats_get answers -ENODEV for a port that is not attached; for an
\* attached port it succeeds or fails with a driver error.  Frames count as
\* one unit of length; the capture core transmits nothing.
dpdk_get_stats(port) ==
    /\ proc = "alive" /\ pc = "idle"
    /\ op' = [NoArgs EXCEPT !.name = "get_stats", !.port = port]
    /\ IF StatsPortMismatch(port)
       THEN /\ ret' = -1
            /\ trace' = <<>>
            /\ stats_out' = Unwritten
            /\ proc' = proc
       ELSE /\ trace' = <<"rte_eth_stats_get">>
            /\ IF ~IsValidPort(dev, ToU16(port))
               THEN ret' = -19 /\ stats_out' = Unwritten /\ proc' = proc
               ELSE \/ /\ ret' = 0
                       /\ stats_out' = [rx_packets |-> ipackets, tx_packets |-> 0,
                                        rx_bytes |-> ipackets, tx_bytes |-> 0]
                       /\ proc' = proc
                    \/ /\ ret' = -5
                       /\ stats_out' = Unwritten
                       /\ proc' = proc
                    \/ /\ eal # "up"
                       /\ proc' = "crashed"
                       /\ UNCHANGED <<ret, stats_out>>
    /\ packets' = <<>>
    /\ UNCHANGED <<session, hw, pc, env, delivered>>

(* ----------------------------- dpdk_cleanup ---------------------------- *)

\* Mutant of CleanupCalls: the runtime is released before the port is stopped
\* and closed.
CleanupCalls_ReleaseFirst(valid) ==
    <<"rte_eth_dev_is_valid_port", "rte_eal_cleanup">>
        \o (IF valid THEN <<"rte_eth_dev_stop", "rte_eth_dev_close">> ELSE <<>>)

\* The driver calls of dpdk_cleanup in program order (lines 254-260), `valid`
\* being the answer of rte_eth_dev_is_valid_port(g_port_id).
CleanupCalls(valid) ==
    <<"rte_eth_dev_is_valid_port">>
        \o (IF valid THEN <<"rte_eth_dev_stop", "rte_eth_dev_close">> ELSE <<>>)
        \o <<"rte_eal_cleanup">>

\* dpdk_cleanup, lines 249-263.  The port is stopped and closed when
\* rte_eth_dev_is_valid_port(g_port_id) holds (a closed port is released, its
\* queue is emptied); rte_eal_cleanup is then called in every case.  None of
\* the globals is reset.  Called while the runtime is not up, the driver calls
\* are undefined: they may return or the process may fault.
dpdk_cleanup ==
    /\ proc = "alive" /\ pc = "idle"
    /\ op' = [NoArgs EXCEPT !.name = "cleanup"]
    /\ LET valid == IsValidPort(dev, ToU16(g_port_id))
           closed == IF valid THEN [dev EXCEPT ![ToU16(g_port_id)] = "unused"]
                     ELSE dev
       IN /\ trace' = CleanupCalls(valid)
          /\ \/ /\ dev' = EalCleanupDev(closed)
                /\ rxq' = IF valid THEN <<>> ELSE rxq
                /\ eal' = IF eal = "up" THEN "released" ELSE eal
                /\ ret' = 0
                /\ proc' = proc
             \/ /\ eal # "up"
                /\ proc' = "crashed"
                /\ UNCHANGED <<dev, rxq, eal, ret>>
    /\ packets' = <<>>
    /\ stats_out' = Unwritten
    /\ UNCHANGED <<session, eal_detaches, ipackets, nb_desc, bufs, pc, env,
                   delivered>>

(* ------------------------------- the NIC ------------------------------- *)

\* A frame arrives on the started port: the NIC writes it into a slot taken
\* from the free pool and queues it on receive queue 0.  The slots are
\* interchangeable; the pool hands out its lowest-numbered free slot.
FrameArrives(s) ==
    /\ proc = "alive"
    /\ eal = "up" /\ mbuf_pool # NULL
    /\ DevStarted(dev, ToU16(g_port_id))
    /\ Len(rxq) < RingSize
    /\ ipackets < MaxFrames
    /\ s \in FreeSlots /\ \A t \in FreeSlots : s <= t
    /\ rxq' = Append(rxq, s)
    /\ ipackets' = ipackets + 1
    /\ UNCHANGED <<session, eal, eal_detaches, dev, nb_desc, bufs, packets,
                   stats_out, pc, proc, op, env, ret, trace, delivered>>

(* ---------------------------- specification ---------------------------- *)

Next ==
    \/ \E a \in InitInputs, e \in InitEnvs : dpdk_init(a.port, a.batch, e)
    \/ \E a \in CaptureInputs : dpdk_capture_packets(a.pk, a.max)
    \/ CaptureFinish
    \/ \E port \in StatsPortInputs : dpdk_get_stats(port)
    \/ dpdk_cleanup
    \/ \E signum \in Signals : Signal(signum)
    \/ \E s \in Slots : FrameArrives(s)

Spec == Init /\ [][Next]_vars

TypeOK ==
    /\ mbuf_pool \in {NULL, POOL}
    /\ g_port_id \in Ports
    /\ g_batch_size \in 1 .. MAX_PKT_BURST
    /\ force_quit \in {0, 1}
    /\ eal \in {"never", "failed", "up", "released"}
    /\ pc \in {"idle", "capturing"}
    /\ proc \in {"alive", "crashed", "killed"}
    /\ Len(rxq) <= RingSize
    /\ Len(bufs) <= MAX_PKT_BURST
    /\ delivered \in Nat

(* -------------------------------- claims ------------------------------- *)

\* The last API call has returned to its caller.
Returned == proc = "alive" /\ pc = "idle"

\* The handlers are installed by a successful dpdk_init only, and the runtime
\* is up from a successful dpdk_init until dpdk_cleanup: the session has been
\* torn down when the handlers are installed and the runtime is not up, and
\* no dpdk_init has succeeded while the handlers are not installed.
Terminated == handlers /\ eal # "up"
NeverConfigured == ~handlers

Issued(call) == call \in Range(trace)

\* The positions of a call in a sequence of calls.
Positions(calls, call) == {i \in 1 .. Len(calls) : calls[i] = call}
IssuedNext(call) == \E i \in 1 .. Len(trace') : trace'[i] = call

\* C1: once cleanup has run after a successful initialize, every later
\* capture, get_stats or initialize returns an error and issues no
\* burst-receive, no stats query, no runtime bring-up and no port start.
C1_TerminatedAbsorbing ==
    (Terminated /\ Returned /\ op.name \in {"capture", "get_stats", "init"})
        => /\ ret < 0
           /\ ~Issued("rte_eth_rx_burst")
           /\ ~Issued("rte_eth_stats_get")
           /\ ~Issued("rte_eal_init")
           /\ ~Issued("rte_eth_dev_start")

\* C2: a cleanup called on a session that is already torn down does not
\* fault, issues no port stop, no port close and no runtime release, and
\* leaves the session and the runtime as they were.
C2_CleanupIdempotent ==
    [][(Terminated /\ dpdk_cleanup)
          => /\ proc' = "alive"
             /\ ~IssuedNext("rte_eth_dev_stop")
             /\ ~IssuedNext("rte_eth_dev_close")
             /\ ~IssuedNext("rte_eal_cleanup")
             /\ UNCHANGED <<session, hw>>]_vars

\* C3: a batch_size in [1, 32] given to a successful initialize is the
\* configured batch size, and a capture(max_packets) call with max_packets > 0
\* returns (and writes) at most min(max_packets, configured batch size)
\* packets, however many frames are pending.
C3_CaptureAtMostMinBatch ==
    /\ (op.name = "init" /\ ret = 0 /\ op.batch \in 1 .. MAX_PKT_BURST)
          => g_batch_size = op.batch
    /\ (op.name = "capture" /\ Returned /\ op.max > 0)
          => /\ ret <= Min(op.max, g_batch_size)
             /\ Len(packets) <= Min(op.max, g_batch_size)

\* C3 witness: a capture returned exactly the configured batch size, which
\* is below max_packets, while another frame is pending.
C3_Witness ==
    /\ op.name = "capture" /\ Returned /\ eal = "up"
    /\ g_batch_size < op.max
    /\ ret = g_batch_size /\ Len(packets) = ret
    /\ Len(rxq) > 0

\* C4: a capture on a session no initialize has configured returns an error
\* and issues no burst-receive call, for every max_packets.
C4_CaptureUnconfiguredRejected ==
    (NeverConfigured /\ op.name = "capture" /\ Returned)
        => (ret < 0 /\ ~Issued("rte_eth_rx_burst"))

\* C5: a capture step with max_packets <= 0 returns -1 in whatever state it
\* is taken, issues no burst-receive call and changes neither the session,
\* nor the runtime, the port or the pool.
C5_NonPositiveMaxRejected ==
    [][\A a \in CaptureInputs :
          (a.max <= 0 /\ dpdk_capture_packets(a.pk, a.max))
             => /\ ret' = -1
                /\ ~IssuedNext("rte_eth_rx_burst")
                /\ pc' = "idle" /\ proc' = "alive"
                /\ packets' = <<>>
                /\ UNCHANGED <<session, hw>>]_vars

\* C5 witness: capture with max_packets <= 0 was rejected on a running
\* session with a frame pending on the queue.
C5_Witness ==
    /\ op.name = "capture" /\ op.max <= 0 /\ op.pk # NULL
    /\ ret = -1 /\ trace = <<>>
    /\ eal = "up" /\ Len(rxq) > 0

\* C6: when initialize fails in port configuration, no port is left started,
\* no pool is left stored, and a port that had been started was stopped again.
C6_PortInitFailureLeavesNothing ==
    (op.name = "init" /\ ret = -5)
        => /\ \A p \in Ports : ~DevStarted(dev, p)
           /\ mbuf_pool = NULL
           /\ Issued("rte_eth_macaddr_get") => Issued("rte_eth_dev_stop")

\* C7: a cleanup called while no initialize has succeeded does not fault and
\* issues no port stop, no port close and no runtime release.
C7_CleanupUnconfiguredNoOp ==
    [][(NeverConfigured /\ dpdk_cleanup)
          => /\ proc' = "alive"
             /\ ~IssuedNext("rte_eth_dev_stop")
             /\ ~IssuedNext("rte_eth_dev_close")
             /\ ~IssuedNext("rte_eal_cleanup")]_vars

\* C8: after capture has returned and until the next capture call, no slot
\* backing a returned Packet is in the free pool.
C8_ViewsValidUntilNextCapture ==
    (op.name = "capture" /\ Returned)
        => \A i \in 1 .. Len(packets) : packets[i].data \notin FreeSlots

\* C9: get_stats with a port other than the configured one returns -1,
\* issues no stats query and writes no counter.
C9_StatsPortMismatch ==
    (op.name = "get_stats" /\ proc = "alive" /\ op.port # g_port_id)
        => /\ ret = -1
           /\ ~Issued("rte_eth_stats_get")
           /\ stats_out = Unwritten

\* C9 witness: a mismatching get_stats was rejected on a running session
\* from whose queue captures have taken frames.
C9_Witness ==
    /\ op.name = "get_stats" /\ op.port # g_port_id /\ ret = -1
    /\ eal = "up" /\ ipackets > Len(rxq)

\* The stage of initialize that fails first, in the order runtime bring-up,
\* no ports, port index out of range, pool creation, port configuration
\* (0: none), for the arguments of the call and the environment's answers.
FirstFailingStage ==
    IF ~env.eal THEN 1
    ELSE IF env.nb = 0 THEN 2
    ELSE IF op.port < 0 \/ op.port >= env.nb THEN 3
    ELSE IF ~env.pool THEN 4
    ELSE IF env.pfail # NoFailure THEN 5
    ELSE 0

\* C10: initialize returns -1, -2, -3, -4, -5 for a failure of the runtime
\* bring-up, of the port count, of the port index (a negative one included),
\* of the pool creation and of the port configuration, the first failing
\* stage deciding, and 0 when none fails; no call of a later stage is issued.
C10_InitErrorPerStage ==
    op.name = "init"
        => /\ ret = 0 - FirstFailingStage
           /\ ret = -1 => trace = <<"rte_eal_init">>
           /\ ret \in {-2, -3} => /\ ~Issued("rte_pktmbuf_pool_create")
                                  /\ ~Issued("rte_eth_dev_is_valid_port")
           /\ ret = -4 => /\ ~Issued("rte_eth_dev_is_valid_port")
                          /\ ~Issued("rte_eth_dev_info_get")

\* C10 witness: a negative port was rejected as out of range although the
\* pool creation and the port configuration would have failed as well.
C10_Witness ==
    /\ op.name = "init" /\ op.port < 0 /\ ret = -3
    /\ ~env.pool /\ env.pfail # NoFailure

\* C11: a cleanup of a running session stops the port, then closes it, then
\* releases the runtime, each exactly once: the runtime release comes after
\* the stop and the close, and leaves the port neither started nor attached.
C11_TeardownOrder ==
    [][(eal = "up" /\ dpdk_cleanup)
          => /\ Cardinality(Positions(trace', "rte_eth_dev_stop")) = 1
             /\ Cardinality(Positions(trace', "rte_eth_dev_close")) = 1
             /\ Cardinality(Positions(trace', "rte_eal_cleanup")) = 1
             /\ \A i \in Positions(trace', "rte_eth_dev_stop"),
                   j \in Positions(trace', "rte_eth_dev_close"),
                   k \in Positions(trace', "rte_eal_cleanup") : i < j /\ j < k
             /\ eal' = "released"
             /\ ~IsValidPort(dev', ToU16(g_port_id))]_vars

\* C11 witness: a running session with a frame captured has been cleaned up.
C11_Witness ==
    /\ op.name = "cleanup" /\ proc = "alive"
    /\ handlers /\ eal = "released" /\ ipackets > 0
    /\ Issued("rte_eth_dev_stop") /\ Issued("rte_eal_cleanup")

\* C12: once initialize has succeeded, the only step that changes force_quit
\* is the delivery of SIGINT or SIGTERM, between calls or inside a capture;
\* it sets the flag and changes nothing else: the process lives on, the session, the runtime, the port, the pool
\* and the position and results of the call in progress are untouched; a
\* capture in progress then returns the frames of its burst; and a flag that
\* is set stays set.
C12_SignalOnlySetsFlag ==
    [][/\ (handlers /\ force_quit' # force_quit)
                => /\ \E signum \in Signals : Signal(signum)
                   /\ force_quit' = 1
                   /\ proc' = "alive"
                   /\ UNCHANGED <<mbuf_pool, g_port_id, g_batch_size, handlers,
                                  hw, packets, stats_out, pc, op, ret, trace>>
       /\ (force_quit = 1 /\ CaptureFinish)
             => (ret' = Len(bufs) /\ Len(packets') = Len(bufs))
       /\ force_quit = 1 => force_quit' = 1]_vars

\* C12 witness: the flag is set and a capture has returned its packets.
C12_Witness ==
    /\ handlers /\ force_quit = 1 /\ eal = "up"
    /\ op.name = "capture" /\ Returned
    /\ ret > 0 /\ Len(packets) = ret

\* C13: the packets returned by all capture calls so far, together with the
\* frames still held by a capture in progress or pending on the receive
\* queue, never exceed the frames that arrived; and no frame is returned
\* twice: the burst takes the frames it hands to the call off the head of
\* the queue, and the call returns exactly those frames and keeps none.
C13_ReturnedAtMostArrived ==
    [][/\ delivered' + Len(bufs') + Len(rxq') <= ipackets'
       /\ (\E a \in CaptureInputs : dpdk_capture_packets(a.pk, a.max))
             => (proc' = "alive" => rxq = bufs' \o rxq')
       /\ CaptureFinish
             => /\ delivered' = delivered + Len(bufs)
                /\ [i \in 1 .. Len(packets') |-> packets'[i].data] = bufs
                /\ bufs' = <<>>]_vars

\* C13 witness: two capture calls have returned packets of a running session
\* and every frame that arrived has been returned.
C13_Witness ==
    /\ eal = "up" /\ op.name = "capture" /\ Returned
    /\ ret > 0 /\ delivered > ret
    /\ delivered = ipackets

\* C14: a capture with valid arguments on a running session whose receive
\* queue is empty returns 0, writes no Packet record, and leaves the session,
\* the runtime, the port, the queue and the pool as they were.
C14_EmptyQueueReturnsZero ==
    [][\A a \in CaptureInputs :
          (/\ handlers /\ eal = "up" /\ rxq = <<>>
           /\ ~CaptureArgsInvalid(a.pk, a.max)
           /\ dpdk_capture_packets(a.pk, a.max))
             => /\ ret' = 0
                /\ packets' = <<>>
                /\ proc' = "alive" /\ pc' = "idle"
                /\ FreeSlots' = FreeSlots
                /\ UNCHANGED <<session, hw>>]_vars

\* C14 witness: every frame that arrived had been returned, and a further
\* capture with valid arguments has returned 0 after its burst.
C14_Witness ==
    /\ handlers /\ eal = "up" /\ Returned
    /\ op.name = "capture" /\ ~CaptureArgsInvalid(op.pk, op.max)
    /\ trace = <<"rte_eth_rx_burst">>
    /\ ret = 0 /\ packets = <<>>
    /\ ipackets > 0 /\ delivered = ipackets

\* C15: every Packet a capture call returned carries the configured port,
\* whichever port dpdk_init accepted.
C15_PacketPortIsConfiguredPort ==
    (Returned /\ op.name = "capture")
        => \A i \in 1 .. Len(packets) : packets[i].port = g_port_id

\* C16: the slots checked out (pending on the queue or held by a capture in
\* progress) are distinct and never more than the pool has; a capture call
\* frees each slot of its burst once, after which the slots are back in the
\* free pool; and outside a capture call the library holds no slot.
C16_SlotConservation ==
    [][/\ Len(rxq') + Len(bufs') <= PoolSlots
       /\ Cardinality(Range(rxq') \cup Range(bufs')) = Len(rxq') + Len(bufs')
       /\ pc' = "idle" => bufs' = <<>>
       /\ CaptureFinish
             => /\ Cardinality(Positions(trace', "rte_pktmbuf_free")) = Len(bufs)
                /\ Range(bufs) \subseteq FreeSlots'
                /\ FreeSlots' = FreeSlots \cup Range(bufs)]_vars

\* C16 witness: a capture call has returned two or more frames and freed as
\* many slots while further frames are pending on the queue.
C16_Witness ==
    /\ op.name = "capture" /\ Returned /\ ret >= 2
    /\ Cardinality(Positions(trace, "rte_pktmbuf_free")) = ret
    /\ bufs = <<>> /\ rxq # <<>>
    /\ FreeSlots = Slots \ Range(rxq)

\* C17: the configured batch size is between 1 and MAX_PKT_BURST in every
\* state, whatever batch size dpdk_init was given; a dpdk_init that got as
\* far as storing it stored the given size when that lies in the range and
\* MAX_PKT_BURST otherwise; so the count a capture call asks of the burst is
\* between 1 and MAX_PKT_BURST and the burst fits bufs[].
C17_BatchSizeClamped ==
    /\ g_batch_size \in 1 .. MAX_PKT_BURST
    /\ (op.name = "init" /\ ret \in {0, -4, -5})
          => g_batch_size = IF op.batch \in 1 .. MAX_PKT_BURST
                            THEN op.batch ELSE MAX_PKT_BURST
    /\ (op.name = "capture" /\ Issued("rte_eth_rx_burst"))
          => CaptureCount(op.max) \in 1 .. MAX_PKT_BURST
    /\ Len(bufs) <= MAX_PKT_BURST

\* C17 witness: dpdk_init has succeeded with a batch size of zero or less and
\* the configured batch size is MAX_PKT_BURST.
C17_Witness ==
    /\ op.name = "init" /\ ret = 0 /\ op.batch <= 0
    /\ g_batch_size = MAX_PKT_BURST

\* Every occurrence of call a in the trace precedes every occurrence of b.
Precedes(a, b) ==
    \A i \in Positions(trace, a), j \in Positions(trace, b) : i < j

\* C18: in a dpdk_init that reached the configuration of the port, the
\* capabilities are queried before any other configuration step; the
\* descriptor-count adjustment is requested before the receive and the
\* transmit queue are set up, and each queue is set up with the adjusted
\* count; the port is started only after exactly one receive queue and one
\* transmit queue were set up; promiscuous mode is enabled only after the
\* start; and a configuration that succeeded made every step and left the
\* port started and promiscuous.  (rte_eth_dev_configure, which fixes the
\* number of queues at one each, is called before the adjustment; the queue
\* setups, which take the descriptor counts, after it.)
C18_PortInitStepOrder ==
    (op.name = "init" /\ Issued("rte_eth_dev_is_valid_port"))
        => /\ \A k \in 2 .. Len(PortInitSteps) :
                  Precedes("rte_eth_dev_info_get", PortInitSteps[k])
           /\ \A k \in 2 .. Len(PortInitSteps) :
                  Issued(PortInitSteps[k]) => Issued("rte_eth_dev_info_get")
           /\ Precedes("rte_eth_dev_adjust_nb_rx_tx_desc", "rte_eth_rx_queue_setup")
           /\ Precedes("rte_eth_dev_adjust_nb_rx_tx_desc", "rte_eth_tx_queue_setup")
           /\ Issued("rte_eth_rx_queue_setup")
                 => (Issued("rte_eth_dev_adjust_nb_rx_tx_desc") /\ nb_desc.rx = env.adj)
           /\ Issued("rte_eth_tx_queue_setup")
                 => (Issued("rte_eth_dev_adjust_nb_rx_tx_desc") /\ nb_desc.tx = env.adj)
           /\ Issued("rte_eth_dev_start")
                 => /\ Cardinality(Positions(trace, "rte_eth_rx_queue_setup")) = 1
                    /\ Cardinality(Positions(trace, "rte_eth_tx_queue_setup")) = 1
                    /\ Precedes("rte_eth_rx_queue_setup", "rte_eth_dev_start")
                    /\ Precedes("rte_eth_tx_queue_setup", "rte_eth_dev_start")
           /\ Issued("rte_eth_promiscuous_enable")
                 => (Issued("rte_eth_dev_start")
                     /\ Precedes("rte_eth_dev_start", "rte_eth_promiscuous_enable"))
           /\ ret = 0
                 => /\ \A k \in 1 .. Len(PortInitSteps) :
                          Cardinality(Positions(trace, PortInitSteps[k])) = 1
                    /\ dev[ToU16(g_port_id)] = "promiscuous"
                    /\ DevStarted(dev, ToU16(g_port_id))

\* C18 witness: dpdk_init has succeeded on a port whose driver adjusted the
\* descriptor counts, and both queues were set up with the adjusted count.
C18_Witness ==
    /\ op.name = "init" /\ ret = 0
    /\ env.adj # NB_DESC
    /\ nb_desc = [rx |-> env.adj, tx |-> env.adj]
    /\ dev[ToU16(g_port_id)] = "promiscuous"

\* C19: a capture call with valid arguments makes exactly one burst-receive
\* call, whether the burst came back full, short or empty, and a capture
\* call rejected for its arguments makes none.
C19_OneBurstPerCapture ==
    op.name = "capture"
        => IF CaptureArgsInvalid(op.pk, op.max)
           THEN ~Issued("rte_eth_rx_burst") /\ ret = -1
           ELSE Cardinality(Positions(trace, "rte_eth_rx_burst")) = 1

\* C19 witness: on a running session a capture call has returned fewer
\* frames than it asked for while frames are pending, after one burst.
C19_Witness ==
    /\ handlers /\ eal = "up" /\ Returned
    /\ op.name = "capture" /\ ~CaptureArgsInvalid(op.pk, op.max)
    /\ ret >= 1 /\ ret < CaptureCount(op.max)
    /\ rxq # <<>>
    /\ Cardinality(Positions(trace, "rte_eth_rx_burst")) = 1

====
